---- MODULE Spec2Model ----
(***************************************************************************)
(* Operator schema and schema registry of caffe2                           *)
(* (caffe2/core/operator_schema.h).                                        *)
(*                                                                         *)
(* The registry is the map of OpSchemaRegistry, a schema is a record of    *)
(* the private fields of OpSchema.  std::function fields are records with  *)
(* a "kind" tag, evaluated by the operators below.  C++ indices are        *)
(* 0-based, TLA+ sequences 1-based: def.input(i) is def.input[i + 1].      *)
(***************************************************************************)
EXTENDS Integers, Sequences, FiniteSets, TLC

VARIABLES map, local, aborted, log, chain, result

vars == <<map, local, aborted, log, chain, result>>

(***************************************************************************)
(* Bounds of the model.                                                    *)
(***************************************************************************)
MaxInputs == 2
MaxOutputs == 2
MaxChain == 1
MaxCalls == 3

(***************************************************************************)
(* Program constants.                                                      *)
(***************************************************************************)
kCannotComputeNumOutputs == -1
INT_MAX == 2147483647

Keys == {"Sum", "Relu", "Conv"}
\* Registration sites (__FILE__, __LINE__) of the callers.
Sites == {<<"a.cc", 10>>, <<"b.cc", 20>>}
BlobNames == {"X", "Y"}

nullptr == [kind |-> "nullptr"]

(***************************************************************************)
(* std::function values.                                                   *)
(***************************************************************************)
\* [](int) { return true; }
AnyCount == [kind |-> "true"]
\* A default joint predicate that wants as many outputs as inputs.
JointDefaultEqualCounts == [kind |-> "in_eq_out"]
\* [](int, int) { return true; }
AlwaysTrue == [kind |-> "true"]
IdentityCalculator == [kind |-> "identity"]
\* A calculate_output_ that starts as the identity.
CalculatorByDefault == [kind |-> "identity"]
\* A default-constructed std::function<int(int)>: empty.
NoCalculator == [kind |-> "empty"]
\* [](int in, int out) { return in == out; }
OneToOne == [kind |-> "one_to_one", pairs |-> {}]
\* An inplace_allowed_ that starts as the one-to-one rule.
InplaceAllowedByDefault == [kind |-> "one_to_one", pairs |-> {}]
\* [](int, int) { return false; }
DefaultInplaceAllowed == [kind |-> "false", pairs |-> {}]
DefaultInplaceEnforced == [kind |-> "false", pairs |-> {}]
DefaultTensorInference == [kind |-> "default", idx |-> 0]
\* std::bind(&OpSchema::DefaultConstInferenceFunction, this, _1, _2): the
\* bound object is the one under construction.
DefaultCostInference == [kind |-> "default", this |-> "self"]

\* OpSchema(file, line), with the default member initializers.
OpSchema(file, line) ==
  [kind |-> "schema",
   file_ |-> file,
   line_ |-> line,
   doc_ |-> "",
   min_input_ |-> 0,
   max_input_ |-> INT_MAX,
   min_output_ |-> 0,
   max_output_ |-> INT_MAX,
   inputs_can_cross_devices_ |-> FALSE,
   num_inputs_allowed_ |-> AnyCount,
   num_outputs_allowed_ |-> AnyCount,
   num_inputs_outputs_allowed_ |-> AlwaysTrue,
   calculate_output_ |-> NoCalculator,
   inplace_allowed_ |-> DefaultInplaceAllowed,
   inplace_enforced_ |-> DefaultInplaceEnforced,
   tensor_inference_function_ |-> DefaultTensorInference,
   cost_inference_function_ |-> DefaultCostInference]

\* The implicit copy/move constructor: every member is copied, the
\* std::bind object of the cost function with the `this` it was bound to.
\* The copy is taken from a temporary, so once the temporary is gone a
\* default cost function refers to a destroyed object.
CopyOfTemporary(s) ==
  IF s.cost_inference_function_.kind = "default"
    THEN [s EXCEPT !.cost_inference_function_.this = "dangling"]
    ELSE s

(***************************************************************************)
(* OperatorDef and TensorShape values the callers pass.                    *)
(***************************************************************************)
SeqsUpTo(S, n) == UNION {[1..k -> S] : k \in 0..n}

Defs(maxIn, maxOut) ==
  {[input |-> i, output |-> o] :
     i \in SeqsUpTo(BlobNames, maxIn), o \in SeqsUpTo(BlobNames, maxOut)}

\* Invocations with the given counts and no output named like an input.
PlainDefs(maxIn, maxOut) ==
  {[input |-> [i \in 1..ni |-> "X"], output |-> [j \in 1..no |-> "Y"]] :
     ni \in 0..maxIn, no \in 0..maxOut}

UnknownShape == [unknown_shape |-> TRUE, dims |-> <<>>, data_type |-> "UNDEFINED"]
ShapeValues ==
  {[unknown_shape |-> FALSE, dims |-> <<2>>, data_type |-> "FLOAT"],
   [unknown_shape |-> FALSE, dims |-> <<3, 4>>, data_type |-> "INT32"]}
ShapeLists(n) == SeqsUpTo(ShapeValues, n)

input_size(def) == Len(def.input)
output_size(def) == Len(def.output)
\* def.input(in_idx) == def.output(out_idx), 0-based indices.
Aliased(def, in_idx, out_idx) == def.input[in_idx + 1] = def.output[out_idx + 1]
AliasedPairs(def) ==
  {p \in (0..(input_size(def) - 1)) \X (0..(output_size(def) - 1)) :
     Aliased(def, p[1], p[2])}

(***************************************************************************)
(* OpSchemaRegistry.                                                       *)
(***************************************************************************)
\* m.count(key)
Count(m, key) == IF m[key] = nullptr THEN 0 ELSE 1

\* A duplicate key that replaces the entry instead of aborting.
NewSchemaOverwriting(key, file, line) ==
  /\ ~aborted
  /\ Len(log) < MaxCalls
  /\ log' = Append(log, [key |-> key, file |-> file, line |-> line])
  /\ map' = [map EXCEPT ![key] = CopyOfTemporary(OpSchema(file, line))]
  /\ aborted' = FALSE
  /\ result' = [op |-> "NewSchema", key |-> key, existed |-> Count(map, key) # 0,
                outcome |-> "return"]
  /\ UNCHANGED <<local, chain>>

\* NewSchema(key, file, line) leaving `entry` under the key: the copy of
\* OpSchema(file, line), after the builder calls the caller appends to the
\* reference returned.
Registration(key, file, line, entry) ==
  /\ ~aborted
  /\ Len(log) < MaxCalls
  /\ log' = Append(log, [key |-> key, file |-> file, line |-> line])
  /\ IF Count(map, key) # 0
       THEN \* the diagnostic names both sites, then abort()
            /\ aborted' = TRUE
            /\ map' = map
            /\ result' = [op |-> "NewSchema", key |-> key, existed |-> TRUE,
                          outcome |-> "abort",
                          registered_file |-> map[key].file_,
                          registered_line |-> map[key].line_]
       ELSE /\ aborted' = FALSE
            /\ map' = [map EXCEPT ![key] = entry]
            /\ result' = [op |-> "NewSchema", key |-> key, existed |-> FALSE,
                          outcome |-> "return"]
  /\ UNCHANGED <<local, chain>>

NewSchema(key, file, line) ==
  Registration(key, file, line, CopyOfTemporary(OpSchema(file, line)))

\* A lookup through m[key] without the count test: operator[] inserts a
\* default-constructed schema for a missing key.
SchemaWithoutCount(key) ==
  IF map[key] = nullptr THEN OpSchema("unknown", 0) ELSE map[key]

\* OpSchemaRegistry::Schema(key): the schema pointed to, or nullptr.
Schema(key) ==
  IF Count(map, key) # 0 THEN map[key] ELSE nullptr

LookupSchema(key) ==
  /\ ~aborted
  /\ result' = [op |-> "Schema", key |-> key, outcome |-> "return",
                value |-> Schema(key)]
  /\ UNCHANGED <<map, local, aborted, log, chain>>

Init ==
  /\ map = [k \in Keys |-> nullptr]
  /\ local = OpSchema("unknown", 0)
  /\ aborted = FALSE
  /\ log = <<>>
  /\ chain = 0
  /\ result = [op |-> "none"]

NextRegistry ==
  \/ \E key \in Keys, site \in Sites : NewSchema(key, site[1], site[2])
  \/ \E key \in Keys : LookupSchema(key)

SpecRegistry == Init /\ [][NextRegistry]_vars

(***************************************************************************)
(* Registry claims.                                                        *)
(***************************************************************************)
Registered(key) == \E i \in 1..Len(log) : log[i].key = key
FirstRegistration(key) ==
  log[CHOOSE i \in 1..Len(log) :
        /\ log[i].key = key
        /\ \A j \in 1..(i - 1) : log[j].key # key]

\* C1: a NewSchema call whose key is already registered aborts the process
\* and never returns; it does not overwrite: every registered key, at the
\* abort too, carries the file and line of its first registration.
C1_DuplicateIsFatalAndKeepsFirst ==
  /\ \A key \in Keys :
       Registered(key) =>
         /\ map[key] # nullptr
         /\ map[key].file_ = FirstRegistration(key).file
         /\ map[key].line_ = FirstRegistration(key).line
  /\ (result.op = "NewSchema" /\ result.existed) =>
       /\ result.outcome = "abort"
       /\ aborted
       /\ result.registered_file = FirstRegistration(result.key).file
       /\ result.registered_line = FirstRegistration(result.key).line
  /\ aborted => (result.op = "NewSchema" /\ result.existed)

\* A second registration of a key from another site has just aborted.
C1_Witness ==
  /\ aborted
  /\ result.op = "NewSchema"
  /\ \E i \in 1..Len(log) :
       /\ i < Len(log)
       /\ log[i].key = result.key
       /\ log[i].file # log[Len(log)].file
       /\ log[Len(log)].key = result.key

\* C2: a lookup returns normally; for a registered name it returns the schema
\* of that name with the file and line of its registration, for a name never
\* registered it returns nullptr; every name registered so far is retrievable.
C2_LookupFindsExactlyTheRegistered ==
  /\ \A key \in Keys :
       IF Registered(key)
         THEN /\ Schema(key) # nullptr
              /\ Schema(key).file_ = FirstRegistration(key).file
              /\ Schema(key).line_ = FirstRegistration(key).line
         ELSE Schema(key) = nullptr
  /\ result.op = "Schema" =>
       /\ result.outcome = "return"
       /\ ~aborted
       /\ IF Registered(result.key)
            THEN /\ result.value # nullptr
                 /\ result.value.file_ = FirstRegistration(result.key).file
                 /\ result.value.line_ = FirstRegistration(result.key).line
            ELSE result.value = nullptr

\* Two distinct names are registered; one lookup just found a schema while
\* the other name is retrievable too.
C2_Witness ==
  /\ result.op = "Schema"
  /\ result.value # nullptr
  /\ \A key \in Keys : Registered(key) /\ Schema(key) # nullptr
  /\ ~aborted

\* A lookup of a name never registered just returned nullptr while another
\* name is registered.
C2_WitnessAbsent ==
  /\ result.op = "Schema"
  /\ result.value = nullptr
  /\ \E key \in Keys : Registered(key)

(***************************************************************************)
(* OpSchema: the builder methods.  Each returns the schema it was called   *)
(* on, here the changed record.                                            *)
(***************************************************************************)
NumInputsRange(s, min, max) == [s EXCEPT !.min_input_ = min, !.max_input_ = max]
NumInputs(s, n) == NumInputsRange(s, n, n)
NumOutputsRange(s, min, max) == [s EXCEPT !.min_output_ = min, !.max_output_ = max]
NumOutputs(s, n) == NumOutputsRange(s, n, n)
NumInputsOutputs(s, func) == [s EXCEPT !.num_inputs_outputs_allowed_ = func]

OutputCalculator(s, calc) == [s EXCEPT !.calculate_output_ = calc]
SameNumberOfOutput(s) == OutputCalculator(s, IdentityCalculator)

AllowInplace(s, inplace) == [s EXCEPT !.inplace_allowed_ = inplace]
AllowOneToOneInplace(s) == AllowInplace(s, OneToOne)
EnforceInplace(s, inplace) == [s EXCEPT !.inplace_enforced_ = inplace]
EnforceOneToOneInplace(s) == EnforceInplace(s, OneToOne)

TensorInferenceFunction(s, function) ==
  [s EXCEPT !.tensor_inference_function_ = function]
IdenticalTypeAndShape(s) ==
  TensorInferenceFunction(s, [kind |-> "identical", idx |-> 0])
IdenticalTypeAndShapeOfInput(s, idx) ==
  TensorInferenceFunction(s, [kind |-> "identical_of_input", idx |-> idx])

CostInferenceFunction(s, function) ==
  [s EXCEPT !.cost_inference_function_ = [kind |-> function, this |-> "unused"]]

InputsCanCrossDevices(s) == [s EXCEPT !.inputs_can_cross_devices_ = TRUE]
SetDoc(s, doc) == [s EXCEPT !.doc_ = doc]

(***************************************************************************)
(* The functions callers install.                                          *)
(***************************************************************************)
JointPredicates == {[kind |-> "in_ge_out"], [kind |-> "in_eq_out"]}
Calculators == {[kind |-> "plus_one"], [kind |-> "twice"]}
InplaceRules ==
  {[kind |-> "set", pairs |-> {<<0, 0>>}], [kind |-> "set", pairs |-> {<<1, 0>>}]}
CostFunctions == {"per_input", "per_output"}

ApplyCount(func, n) ==
  CASE func.kind = "true" -> TRUE

ApplyJoint(func, in, out) ==
  CASE func.kind = "true" -> TRUE
    [] func.kind = "in_ge_out" -> in >= out
    [] func.kind = "in_eq_out" -> in = out

ApplyCalculator(calc, n) ==
  CASE calc.kind = "identity" -> n
    [] calc.kind = "plus_one" -> n + 1
    [] calc.kind = "twice" -> 2 * n

ApplyInplace(inplace, in, out) ==
  CASE inplace.kind = "false" -> FALSE
    [] inplace.kind = "one_to_one" -> in = out
    [] inplace.kind = "set" -> <<in, out>> \in inplace.pairs

ApplyCost(function, def, shapes) ==
  CASE function = "per_input" ->
         [flops |-> input_size(def), bytes_moved |-> Len(shapes)]
    [] function = "per_output" ->
         [flops |-> output_size(def), bytes_moved |-> 4 * Len(shapes)]

(***************************************************************************)
(* OpSchema: the queries.                                                  *)
(***************************************************************************)
\* Verify without the check of the required pairs.
VerifyIgnoringEnforced(s, def) ==
  /\ ApplyJoint(s.num_inputs_outputs_allowed_, input_size(def), output_size(def))
  /\ s.min_input_ <= input_size(def) /\ input_size(def) <= s.max_input_
  /\ ApplyCount(s.num_inputs_allowed_, input_size(def))
  /\ s.min_output_ <= output_size(def) /\ output_size(def) <= s.max_output_
  /\ ApplyCount(s.num_outputs_allowed_, output_size(def))
  /\ \A p \in AliasedPairs(def) : ApplyInplace(s.inplace_allowed_, p[1], p[2])

\* Verify(def): (a) the joint count predicate, (b) the input and the output
\* count rule, (c) every aliased (input, output) pair is permitted (a required
\* pair counts as permitted), (d) every required pair is aliased.
Verify(s, def) ==
  /\ ApplyJoint(s.num_inputs_outputs_allowed_, input_size(def), output_size(def))
  /\ s.min_input_ <= input_size(def) /\ input_size(def) <= s.max_input_
  /\ ApplyCount(s.num_inputs_allowed_, input_size(def))
  /\ s.min_output_ <= output_size(def) /\ output_size(def) <= s.max_output_
  /\ ApplyCount(s.num_outputs_allowed_, output_size(def))
  /\ \A in_idx \in 0..(input_size(def) - 1), out_idx \in 0..(output_size(def) - 1) :
       /\ Aliased(def, in_idx, out_idx) =>
            \/ ApplyInplace(s.inplace_allowed_, in_idx, out_idx)
            \/ ApplyInplace(s.inplace_enforced_, in_idx, out_idx)
       /\ ApplyInplace(s.inplace_enforced_, in_idx, out_idx) =>
            Aliased(def, in_idx, out_idx)

\* The default inference looping over the inputs instead of the outputs.
DefaultTensorInferenceFunctionOverInputs(def) ==
  [i \in 1..input_size(def) |-> UnknownShape]

\* The default tensor_inference_function_: one unknown shape per output.
DefaultTensorInferenceFunction(def) ==
  [i \in 1..output_size(def) |-> UnknownShape]

\* InferTensor(def, input_type_shape): the call of tensor_inference_function_.
InferTensor(s, def, input_type_shape) ==
  CASE s.tensor_inference_function_.kind = "default" ->
         DefaultTensorInferenceFunction(def)
    [] s.tensor_inference_function_.kind = "identical" ->
         input_type_shape
    [] s.tensor_inference_function_.kind = "identical_of_input" ->
         <<input_type_shape[s.tensor_inference_function_.idx + 1]>>

\* The inputs InferTensor is defined on: the input the function copies exists.
InferTensorDefined(s, input_type_shape) ==
  s.tensor_inference_function_.kind = "identical_of_input" =>
    s.tensor_inference_function_.idx < Len(input_type_shape)

CalculateOutput(s, num_input) ==
  IF s.calculate_output_.kind = "empty"
    THEN kCannotComputeNumOutputs
    ELSE ApplyCalculator(s.calculate_output_, num_input)

\* The outcomes of InferCost(def, input_tensor_shape).  A user function
\* returns its value.  DefaultConstInferenceFunction throws; called through a
\* `this` that refers to a destroyed object the call is undefined: it may
\* throw, return any Cost, or crash.
GarbageCosts == {[flops |-> 0, bytes_moved |-> 0], [flops |-> 7, bytes_moved |-> 9]}
InferCostOutcomes(s, def, input_tensor_shape) ==
  CASE s.cost_inference_function_.kind = "default"
         /\ s.cost_inference_function_.this = "self" ->
         {[outcome |-> "throw", value |-> "No cost inference function registered."]}
    [] s.cost_inference_function_.kind = "default"
         /\ s.cost_inference_function_.this = "dangling" ->
         {[outcome |-> "throw", value |-> "No cost inference function registered."],
          [outcome |-> "crash", value |-> "undefined"]}
         \cup {[outcome |-> "return", value |-> c] : c \in GarbageCosts}
    [] OTHER ->
         {[outcome |-> "return",
           value |-> ApplyCost(s.cost_inference_function_.kind, def, input_tensor_shape)]}

(***************************************************************************)
(* A schema under configuration: the local object or a registry entry.     *)
(* Configuration completes before the queries; a query changes nothing,    *)
(* one query per behaviour shows all there is.                             *)
(***************************************************************************)
Handles == {"local"} \cup Keys
Deref(h) == IF h = "local" THEN local ELSE Schema(h)
IsQuery(r) == r.op \in {"Verify", "InferTensor", "InferCost", "CalculateOutput"}

Configure(h, name, s) ==
  /\ ~aborted
  /\ ~IsQuery(result)
  /\ chain < MaxChain
  /\ Deref(h) # nullptr
  /\ chain' = chain + 1
  /\ IF h = "local"
       THEN local' = s /\ map' = map
       ELSE map' = [map EXCEPT ![h] = s] /\ local' = local
  /\ result' = [op |-> name, handle |-> h, outcome |-> "return"]
  /\ UNCHANGED <<aborted, log>>

Counts == 0..MaxInputs
Maxima == Counts \cup {INT_MAX}
OutputCounts == 0..MaxOutputs
OutputMaxima == OutputCounts \cup {INT_MAX}
InputIndices == 0..1

DoNumInputs(h) ==
  \E n \in Counts : Configure(h, "NumInputs", NumInputs(Deref(h), n))
DoNumInputsRange(h) ==
  \E min \in Counts, max \in Maxima :
    min < max /\ Configure(h, "NumInputs", NumInputsRange(Deref(h), min, max))
DoNumOutputs(h) ==
  \E n \in OutputCounts : Configure(h, "NumOutputs", NumOutputs(Deref(h), n))
DoNumOutputsRange(h) ==
  \E min \in OutputCounts, max \in OutputMaxima :
    min < max /\ Configure(h, "NumOutputs", NumOutputsRange(Deref(h), min, max))
DoNumInputsOutputs(h) ==
  \E func \in JointPredicates :
    Configure(h, "NumInputsOutputs", NumInputsOutputs(Deref(h), func))
DoOutputCalculator(h) ==
  \E calc \in Calculators :
    Configure(h, "OutputCalculator", OutputCalculator(Deref(h), calc))
DoSameNumberOfOutput(h) ==
  Configure(h, "SameNumberOfOutput", SameNumberOfOutput(Deref(h)))
DoAllowInplace(h) ==
  \E inplace \in InplaceRules :
    Configure(h, "AllowInplace", AllowInplace(Deref(h), inplace))
DoAllowOneToOneInplace(h) ==
  Configure(h, "AllowOneToOneInplace", AllowOneToOneInplace(Deref(h)))
DoEnforceInplace(h) ==
  \E inplace \in InplaceRules :
    Configure(h, "EnforceInplace", EnforceInplace(Deref(h), inplace))
DoEnforceOneToOneInplace(h) ==
  Configure(h, "EnforceOneToOneInplace", EnforceOneToOneInplace(Deref(h)))
DoIdenticalTypeAndShape(h) ==
  Configure(h, "IdenticalTypeAndShape", IdenticalTypeAndShape(Deref(h)))
DoIdenticalTypeAndShapeOfInput(h) ==
  \E idx \in InputIndices :
    Configure(h, "IdenticalTypeAndShapeOfInput",
              IdenticalTypeAndShapeOfInput(Deref(h), idx))
DoCostInferenceFunction(h) ==
  \E function \in CostFunctions :
    Configure(h, "CostInferenceFunction", CostInferenceFunction(Deref(h), function))

Query(h) ==
  /\ ~aborted
  /\ ~IsQuery(result)
  /\ Deref(h) # nullptr
  /\ UNCHANGED <<map, local, aborted, log, chain>>

DoVerify(h, defs) ==
  /\ Query(h)
  /\ \E def \in defs :
       result' = [op |-> "Verify", handle |-> h, def |-> def, outcome |-> "return",
                  value |-> Verify(Deref(h), def)]

DoInferTensor(h, defs, lists) ==
  /\ Query(h)
  /\ \E def \in defs, shapes \in lists :
       /\ InferTensorDefined(Deref(h), shapes)
       /\ result' = [op |-> "InferTensor", handle |-> h, def |-> def,
                     shapes |-> shapes, outcome |-> "return",
                     value |-> InferTensor(Deref(h), def, shapes)]

DoInferCost(h, defs, lists) ==
  /\ Query(h)
  /\ \E def \in defs, shapes \in lists :
       \E o \in InferCostOutcomes(Deref(h), def, shapes) :
         result' = [op |-> "InferCost", handle |-> h, def |-> def,
                    shapes |-> shapes, outcome |-> o.outcome, value |-> o.value]

DoCalculateOutput(h) ==
  /\ Query(h)
  /\ \E n \in Counts :
       result' = [op |-> "CalculateOutput", handle |-> h, num_input |-> n,
                  outcome |-> "return", value |-> CalculateOutput(Deref(h), n)]

(***************************************************************************)
(* Verification: count and in-place rules, then Verify.                    *)
(***************************************************************************)
VerifyDefs == Defs(MaxInputs, MaxOutputs)

NextVerify ==
  \E h \in Handles :
    \/ DoNumInputs(h)
    \/ DoNumInputsRange(h)
    \/ DoNumOutputs(h)
    \/ DoNumOutputsRange(h)
    \/ DoNumInputsOutputs(h)
    \/ DoAllowInplace(h)
    \/ DoAllowOneToOneInplace(h)
    \/ DoEnforceInplace(h)
    \/ DoEnforceOneToOneInplace(h)
    \/ DoVerify(h, VerifyDefs)

SpecVerify == Init /\ [][NextVerify]_vars

(***************************************************************************)
(* Inference: the output calculator, tensor and cost inference, on a       *)
(* schema constructed directly and on one held by the registry.            *)
(***************************************************************************)
InitInference ==
  /\ map = [k \in Keys |->
              IF k = "Relu" THEN CopyOfTemporary(OpSchema("a.cc", 10)) ELSE nullptr]
  /\ local = OpSchema("unknown", 0)
  /\ aborted = FALSE
  /\ log = <<[key |-> "Relu", file |-> "a.cc", line |-> 10]>>
  /\ chain = 0
  /\ result = [op |-> "NewSchema", key |-> "Relu", existed |-> FALSE,
               outcome |-> "return"]

InferenceDefs == PlainDefs(MaxInputs, MaxOutputs)
InferenceShapes == ShapeLists(MaxInputs)

NextInference ==
  \E h \in Handles :
    \/ DoOutputCalculator(h)
    \/ DoSameNumberOfOutput(h)
    \/ DoIdenticalTypeAndShape(h)
    \/ DoIdenticalTypeAndShapeOfInput(h)
    \/ DoCostInferenceFunction(h)
    \/ DoInferTensor(h, InferenceDefs, InferenceShapes)
    \/ DoInferCost(h, InferenceDefs, InferenceShapes)
    \/ DoCalculateOutput(h)

SpecInference == InitInference /\ [][NextInference]_vars

(***************************************************************************)
(* The registration of Sum.                                                *)
(***************************************************************************)
SumDoc == "Element-wise sum of each of the input tensors."
SumLine == 413

\* The chain without AllowInplace({{0, 0}}).
SumSchemaWithoutInplace(s) ==
  SetDoc(
    IdenticalTypeAndShapeOfInput(
      InputsCanCrossDevices(NumOutputs(NumInputsRange(s, 1, INT_MAX), 1)),
      0),
    SumDoc)

\* .NumInputs(1, INT_MAX).NumOutputs(1).AllowInplace({{0, 0}})
\* .InputsCanCrossDevices().IdenticalTypeAndShapeOfInput(0).SetDoc(...)
SumSchema(s) ==
  SetDoc(
    IdenticalTypeAndShapeOfInput(
      InputsCanCrossDevices(
        AllowInplace(
          NumOutputs(NumInputsRange(s, 1, INT_MAX), 1),
          [kind |-> "set", pairs |-> {<<0, 0>>}])),
      0),
    SumDoc)

\* OPERATOR_SCHEMA(Sum)...: NewSchema("Sum", __FILE__, __LINE__), then the
\* chain on the schema it returns.
RegisterSum ==
  Registration("Sum", "operator_schema.h", SumLine,
               SumSchema(CopyOfTemporary(OpSchema("operator_schema.h", SumLine))))

SumInputs == MaxInputs + 1
SumVerifyDefs == Defs(SumInputs, MaxOutputs)
SumInferenceDefs == PlainDefs(SumInputs, MaxOutputs)
SumInferenceShapes == ShapeLists(SumInputs)

NextSum ==
  \/ RegisterSum
  \/ \E key \in Keys : LookupSchema(key)
  \/ DoVerify("Sum", SumVerifyDefs)
  \/ DoInferTensor("Sum", SumInferenceDefs, SumInferenceShapes)

SpecSum == Init /\ [][NextSum]_vars

(***************************************************************************)
(* Schema claims.  A query is the last step of a behaviour, so the schema  *)
(* a handle refers to is the one the query ran on.                         *)
(***************************************************************************)
\* The fields Verify reads.
Rules(s) ==
  <<s.min_input_, s.max_input_, s.min_output_, s.max_output_,
    s.num_inputs_allowed_, s.num_outputs_allowed_, s.num_inputs_outputs_allowed_, s.inplace_allowed_, s.inplace_enforced_>>
Fresh == OpSchema("unknown", 0)
Verified == result.op = "Verify"
Subject == Deref(result.handle)
NoAliasing == AliasedPairs(result.def) = {}

\* C3 as stated: with NumInputs(1) the only configuration, Verify is true for
\* every invocation with exactly 1 input and false for any other input count.
C3_Original ==
  (Verified /\ Rules(Subject) = Rules(NumInputs(Fresh, 1))) =>
    (result.value <=> input_size(result.def) = 1)

\* C3 amended: with NumInputs(1) the only configuration, Verify is true for
\* every invocation with exactly 1 input none of whose outputs is named like
\* that input, whatever the output count, and false for every other
\* invocation (another input count, or an output aliasing the input).
C3_OneInputWithoutAliasing ==
  (Verified /\ Rules(Subject) = Rules(NumInputs(Fresh, 1))) =>
    (result.value <=> (input_size(result.def) = 1 /\ NoAliasing))

\* NumInputs(1) only; one input, the largest output count, verified.
C3_Witness ==
  /\ Verified
  /\ Rules(Subject) = Rules(NumInputs(Fresh, 1))
  /\ input_size(result.def) = 1
  /\ output_size(result.def) = MaxOutputs
  /\ result.value

\* C4: with AllowOneToOneInplace the only configuration, Verify passes exactly
\* the invocations whose aliased pairs are all index-matched (output i named
\* like input i); with AllowOneToOneInplace and no EnforceInplace, whatever
\* else is configured, an output aliasing an input of another index fails;
\* with neither AllowInplace nor EnforceInplace configured every invocation
\* with an aliased pair fails.
C4_OneToOneInplaceAllowed ==
  Verified =>
    /\ Rules(Subject) = Rules(AllowOneToOneInplace(Fresh)) =>
         (result.value <=> \A p \in AliasedPairs(result.def) : p[1] = p[2])
    /\ (/\ Subject.inplace_allowed_ = OneToOne
        /\ Subject.inplace_enforced_ = DefaultInplaceEnforced
        /\ \E p \in AliasedPairs(result.def) : p[1] # p[2]) => ~result.value
    /\ (/\ Subject.inplace_allowed_ = DefaultInplaceAllowed
        /\ Subject.inplace_enforced_ = DefaultInplaceEnforced
        /\ ~NoAliasing) => ~result.value

\* AllowOneToOneInplace only; output 0 is input 0 and nothing else is
\* aliased; verified.
C4_Witness ==
  /\ Verified
  /\ Rules(Subject) = Rules(AllowOneToOneInplace(Fresh))
  /\ AliasedPairs(result.def) = {<<0, 0>>}
  /\ input_size(result.def) = 2
  /\ result.value

\* C5: Verify is false whenever some (input i, output j) within the
\* invocation's counts is required by the enforce rule and not aliased; with
\* EnforceOneToOneInplace, whatever else is configured, an invocation with an
\* input 0 and an output 0 that is not input 0 fails.
C5_EnforcedPairMustAlias ==
  Verified =>
    /\ (\E in_idx \in 0..(input_size(result.def) - 1),
           out_idx \in 0..(output_size(result.def) - 1) :
          /\ ApplyInplace(Subject.inplace_enforced_, in_idx, out_idx)
          /\ ~Aliased(result.def, in_idx, out_idx)) => ~result.value
    /\ (/\ Subject.inplace_enforced_ = OneToOne
        /\ input_size(result.def) >= 1
        /\ output_size(result.def) >= 1
        /\ ~Aliased(result.def, 0, 0)) => ~result.value

\* EnforceOneToOneInplace; output 0 is input 1, not input 0; rejected.
C5_Witness ==
  /\ Verified
  /\ Subject.inplace_enforced_ = OneToOne
  /\ input_size(result.def) = 2
  /\ output_size(result.def) >= 1
  /\ ~Aliased(result.def, 0, 0)
  /\ Aliased(result.def, 1, 0)
  /\ ~result.value

\* C6: with no tensor inference function configured, InferTensor returns
\* normally, for every invocation and every list of input shapes, exactly
\* output_size() descriptors, each marked unknown-shape.
C6_DefaultTensorInferenceIsUnknown ==
  (/\ result.op = "InferTensor"
   /\ Subject.tensor_inference_function_ = DefaultTensorInference) =>
    /\ result.outcome = "return"
    /\ Len(result.value) = output_size(result.def)
    /\ \A i \in 1..Len(result.value) : result.value[i].unknown_shape

\* No inference function, the largest output count, no inputs and no input
\* shapes: the result has one unknown shape per output.
C6_Witness ==
  /\ result.op = "InferTensor"
  /\ Subject.tensor_inference_function_ = DefaultTensorInference
  /\ output_size(result.def) = MaxOutputs
  /\ input_size(result.def) = 0
  /\ result.shapes = <<>>
  /\ Len(result.value) = MaxOutputs

C8_CalculateOutput ==
  result.op = "CalculateOutput" =>
    /\ result.outcome = "return"
    /\ Subject.calculate_output_ = NoCalculator =>
         result.value = kCannotComputeNumOutputs
    /\ Subject.calculate_output_ = SameNumberOfOutput(Fresh).calculate_output_ =>
         result.value = result.num_input
    /\ \A calc \in Calculators :
         Subject.calculate_output_ = calc =>
           result.value = ApplyCalculator(calc, result.num_input)

\* SameNumberOfOutput(), then CalculateOutput of the largest count.
C8_Witness ==
  /\ result.op = "CalculateOutput"
  /\ Subject.calculate_output_ = IdentityCalculator
  /\ result.num_input = MaxInputs
  /\ result.value = MaxInputs

\* No calculator configured: the sentinel.
C8_WitnessSentinel ==
  /\ result.op = "CalculateOutput"
  /\ Subject.calculate_output_ = NoCalculator
  /\ result.num_input = MaxInputs
  /\ result.value = kCannotComputeNumOutputs

\* C9: the Sum schema looked up from the registry verifies an invocation
\* exactly when it has at least 1 input, exactly 1 output, and the output is
\* named like no input other than input 0; so 3 inputs and 1 output that is
\* input 0 pass and 0 inputs fail.  InferTensor returns the descriptor of
\* input 0, unchanged, as the only output shape.
C9_Sum ==
  /\ (Verified /\ result.handle = "Sum") =>
       /\ result.value <=>
            /\ input_size(result.def) >= 1
            /\ output_size(result.def) = 1
            /\ AliasedPairs(result.def) \subseteq {<<0, 0>>}
       /\ input_size(result.def) = 0 => ~result.value
       /\ (/\ input_size(result.def) = 3
           /\ output_size(result.def) = 1
           /\ AliasedPairs(result.def) = {<<0, 0>>}) => result.value
  /\ (result.op = "InferTensor" /\ result.handle = "Sum") =>
       /\ result.outcome = "return"
       /\ result.value = <<result.shapes[1]>>

\* Sum verified for 3 inputs and 1 output that is input 0.
C9_Witness ==
  /\ Verified
  /\ result.handle = "Sum"
  /\ input_size(result.def) = 3
  /\ output_size(result.def) = 1
  /\ AliasedPairs(result.def) = {<<0, 0>>}
  /\ result.value

\* Sum inferred from three input shapes, the first unlike the second.
C9_WitnessInference ==
  /\ result.op = "InferTensor"
  /\ result.handle = "Sum"
  /\ Len(result.shapes) = 3
  /\ result.shapes[1] # result.shapes[2]
  /\ result.value = <<result.shapes[1]>>

====
